---------------------------- MODULE Spec2Model ----------------------------
(***************************************************************************)
(* Model of the whole_cell_patch analysis engine.                          *)
(*                                                                         *)
(*   Spec       the analysis window, its worker thread and the batch loops *)
(*              (analyzeModule.py, analysis.py, ap.py, mini.py,            *)
(*              sealTest.py, sub.py, project.py, main.py)                  *)
(*   SpecSpike  the onset scan of AP.spikeAnalysis (ap.py)                 *)
(*   SpecMini   the candidate scan of Mini.miniAnalysis (mini.py)          *)
(***************************************************************************)
EXTENDS Integers, Sequences, FiniteSets, TLC

VARIABLES
    \* ---- analysis window / worker / batch loop ----
    busy,       \* AnalyzeModuleWindow.busy
    toStop,     \* Analysis.toStop
    pc,         \* position of the worker thread
    fn,         \* the module of the window: its batch function
    prot,       \* its protocol argument
    verbose,    \* its verbose argument
    comp,       \* its comp argument (batchStAnalysis / batchSubAnalysis)
    k,          \* number of trials appended to the local result list
    acc,        \* the local result list (apProps / miniProps / stProps / subProps)
    store,      \* interm.h5: the module's table of each protocol
    ret,        \* value returned by the batch function
    exc,        \* exception that left the batch function
    reported,   \* file named by loadWave's "reading error" message
    plots,      \* the current run has emitted a plot request (plotOut)
    prompts,    \* the current run has asked for input (ipt)
    mf,         \* stAnalysis / subAnalysis: median filter threshold
    verb,       \* stAnalysis / subAnalysis: local verbose
    fitOut,     \* outcome of decayFit on the current trace
    active,     \* detection parameters set by setBasic
    stored,     \* ParamMan.params["basic_" + name]
    assigned,   \* number of trials Project.iterate yields per protocol
    runs,       \* analysis runs started so far
    \* ---- AP.spikeAnalysis onset scan ----
    trace,      \* the voltage trace, multiplied by a negative sign
    sr,         \* sampling rate
    stim,       \* stimulation: <<start, duration>>
    sign, slope_th, peak_th, width_th,     \* spikeDetectParam
    pstart,     \* possible start points
    reverse,    \* possible peak points
    i,          \* index in pstart
    j,          \* index in reverse
    starts,     \* accepted onsets
    AHPParam,   \* mAHP_begin and mAHP_end, in samples
    apProps,    \* properties of the spikes: peak, amp and mAHP
    trialProps, \* properties of the trial: the firing rate
    spc,        \* "scan", "done" or the exception raised
    \* ---- Mini.miniAnalysis candidate scan ----
    miniParam,  \* riseSlope, riseTime, stackWin, minTau, residual
    win,        \* analysis window, in samples; <<0, 0>> is the whole trace
    dfx,        \* derivative of the smoothed trace
    peaks, troughs, rises,      \* candidate masks
    ptrInds,    \* merged candidate indices and the end index
    lastRise,   \* last rise point index
    last2Rise,  \* the rise point index before it
    peakStack,  \* peaks stacked too close to each other
    mi,         \* index in ptrInds
    popt,       \* outcome of the last curve_fit
    events,     \* miniRises / miniPeaks / miniDecayTaus
    log,        \* messages printed by prt
    mpc,        \* position in miniAnalysis
    \* ---- SignalProc.thmedfilt ----
    x,          \* input signal
    wsize,      \* median filter window size
    thresh,     \* threshold for filter
    z,          \* filtered signal
    zz,         \* the filtered signal filtered again
    tpc,        \* "call", "again", "done" or "ValueError"
    \* ---- Project.setFilters / the filter loop of Project.loadWave ----
    fs,         \* the filters handed to setFilters, parameters as text
    filters,    \* Project.filters
    fret,       \* value returned by setFilters
    calls,      \* calls of thmedfilt and smooth made by loadWave
    cpc,        \* "init", "set", "loaded" or the exception raised
    \* ---- Mini.batchMiniAnalysis trialProps / Mini.aveProps rate ----
    bwin,       \* win of batchMiniAnalysis, in samples
    lens,       \* number of samples of the trace of each trial of one cell
    analysed,   \* len(x) of the trials analysed so far
    mTrialProps,    \* trialProps rows: dur and num of each trial
    sumTrialProps,  \* aveProps: the sums and the rate of the cell
    rpc,        \* "batch", "stored" or "averaged"
    \* ---- SealTest.stAnalysis / Sub.subAnalysis: the resistances ----
    stArgs,     \* module, clamp, amplitude, scale, window means and the fit
    stProps,    \* the row returned: Rin, Rs, Cm as fractions
    dpc,        \* "call" or "returned"
    \* ---- Analysis.stop / Analysis.stopRequested on one module ----
    qm,         \* Analysis.qm: "free" or the thread holding it
    flag,       \* Analysis.toStop of that module
    at,         \* position of every thread
    rets,       \* ret of stopRequested in every polling thread
    stops,      \* stop() calls that have set the flag
    trues,      \* stopRequested() calls that found their ret true
    \* ---- Mini.setBasic and the record of the parameter manager ----
    params,     \* ParamMan.params["basic_mini"]
    mParam,     \* Mini.miniParam
    configured, \* the record as its source (default, file, dialog) gave it
    sets,       \* calls of setBasic made with the record of the manager
    \* ---- ParamWidget of one profile and the run button ----
    texts,      \* text of each line edit
    wparam,     \* ParamWidget.param: the value of each field
    items,      \* number of protocols listed in the combo box
    err,        \* ParamWidget.err
    edits,      \* signals handled so far
    called      \* outcome of the last Worker.run

sysVars == <<busy, toStop, pc, fn, prot, verbose, comp, k, acc, store, ret,
             exc, reported, plots, prompts, mf, verb, fitOut, active, stored,
             assigned, runs>>
spikeVars == <<trace, sr, stim, sign, slope_th, peak_th, width_th, pstart,
               reverse, i, j, starts, AHPParam, apProps, trialProps, spc>>
miniVars == <<miniParam, win, dfx, peaks, troughs, rises, ptrInds, lastRise,
              last2Rise, peakStack, mi, popt, events, log, mpc>>
medVars == <<x, wsize, thresh, z, zz, tpc>>
cfgVars == <<fs, filters, fret, calls, cpc>>
rateVars == <<bwin, lens, analysed, mTrialProps, sumTrialProps, rpc>>
propVars == <<stArgs, stProps, dpc>>
stopVars == <<qm, flag, at, rets, stops, trues>>
basicVars == <<params, mParam, configured, sets>>
widgetVars == <<texts, wparam, items, err, edits, called>>
moreVars == <<propVars, stopVars, basicVars, widgetVars>>
auxVars == <<medVars, cfgVars, rateVars, moreVars>>
vars == <<sysVars, spikeVars, miniVars, auxVars>>

---------------------------------------------------------------------------
(* Bounds of the model *)
MaxTrials == 2      \* trials assigned to one protocol
MaxRuns == 2        \* analysis runs started

Protocols == {"p0", "p1", "p2"}
Fns == {"AP", "Mini", "St", "Sub"}
ParamVals == {0, 1}
LoadOutcomes == {"ok", "IOError"}
FitOutcomes == {"good", "lowTau", "RuntimeError", "ValueError", "TypeError",
                "IndexError"}
Answers1 == {"m", "k", "other"}
Answers2 == {"number", "text"}
APAnswers == {"y", "n"}
NoTrial == <<0, 0>>

(* Project.assignedProt: no trial is assigned to p0, one to p1 and MaxTrials
   to p2 *)
Assigned == [p \in Protocols |->
                IF p = "p0" THEN 0 ELSE IF p = "p1" THEN 1 ELSE MaxTrials]

(* Project.assignedProt seen through an empty selection of cells *)
NoneSelected == [p \in Protocols |-> 0]

(* Project.iterate: the i-th (cell, trial) pair of a protocol; two trials
   per cell. *)
TrialAt(n) == <<(n + 1) \div 2, n>>

(* a row of the result table of the run in progress *)
Row(n, r) == [cell |-> TrialAt(n)[1], trial |-> TrialAt(n)[2], res |-> r,
              run |-> runs]

SysInit ==
    /\ busy = FALSE
    /\ toStop = FALSE
    /\ pc = "idle"
    /\ fn \in Fns
    /\ prot = "p0"
    /\ verbose = 0
    /\ comp = FALSE
    /\ k = 0
    /\ acc = <<>>
    /\ store = [p \in Protocols |-> <<>>]
    /\ ret = "unset"
    /\ exc = "none"
    /\ reported = NoTrial
    /\ plots = FALSE
    /\ prompts = FALSE
    /\ mf = "None"
    /\ verb = FALSE
    /\ fitOut = "good"
    /\ active = 0
    /\ stored = 0
    /\ assigned = Assigned
    /\ runs = 0


---------------------------------------------------------------------------
(* Analysis.stop / Analysis.stopRequested *)

stop == toStop' = TRUE

(* value returned by stopRequested; the flag is cleared when it was set *)
stopRequested == toStop' = FALSE

(* AnalyzeModuleWindow.abort: the Abort button *)
abort ==
    /\ busy
    /\ stop
    /\ UNCHANGED <<busy, pc, fn, prot, verbose, comp, k, acc, store, ret, exc,
                   reported, plots, prompts, mf, verb, fitOut, active, stored,
                   assigned, runs>>
    /\ UNCHANGED <<spikeVars, miniVars, auxVars>>

(* A method button: Worker.start and AnalyzeModuleWindow.lock.  The buttons
   live in ctlWd, which lock disables.  Worker.run first calls changeParams,
   which fails when the ParamWidget holds an unparsed field. *)
lock == busy' = TRUE

StartRun ==
    /\ ~busy
    /\ pc = "idle"
    /\ runs < MaxRuns
    /\ lock
    /\ runs' = runs + 1
    /\ \E p \in Protocols, v \in 0..2, c \in BOOLEAN, good \in BOOLEAN :
          /\ prot' = p
          /\ verbose' = v
          /\ comp' = (c /\ fn \in {"St", "Sub"})
          /\ pc' = IF good THEN "loop" ELSE "noparam"
    /\ k' = 0
    /\ acc' = <<>>
    /\ ret' = "unset"
    /\ exc' = "none"
    /\ reported' = NoTrial
    /\ plots' = FALSE
    /\ prompts' = FALSE
    /\ mf' = "None"
    /\ verb' = FALSE
    /\ fitOut' = "good"
    /\ UNCHANGED <<toStop, fn, store, active, stored, assigned>>
    /\ UNCHANGED <<spikeVars, miniVars, auxVars>>

(* Worker.run emits jobDone once the function has returned; unlock is its
   slot.  The arguments and locals of the function that returned are gone. *)
unlock == busy' = FALSE

JobDone ==
    /\ pc \in {"finished", "stopped", "aborted", "noparam"}
    /\ unlock
    /\ pc' = "idle"
    /\ k' = 0
    /\ acc' = <<>>
    /\ plots' = FALSE
    /\ prompts' = FALSE
    /\ mf' = "None"
    /\ verb' = FALSE
    /\ fitOut' = "good"
    /\ prot' = "p0"
    /\ verbose' = 0
    /\ comp' = FALSE
    /\ UNCHANGED <<toStop, fn, store, ret, exc, reported, active, stored,
                   assigned, runs>>
    /\ UNCHANGED <<spikeVars, miniVars, auxVars>>

---------------------------------------------------------------------------
(* LoadFail with the message lost: the exception is raised again without
   the file being named *)
LoadFailSilent ==
    /\ pc' = "raised"
    /\ exc' = "IOError"
    /\ reported' = NoTrial
    /\ UNCHANGED <<k, acc, plots, prompts, mf, verb, fitOut>>

(* Project.loadWave failing with IOError: the message names the file of
   (cell, trial) and the exception is raised again; no batch function
   catches it. *)
LoadFail ==
    /\ pc' = "raised"
    /\ exc' = "IOError"
    /\ reported' = TrialAt(k + 1)
    /\ UNCHANGED <<k, acc, plots, prompts, mf, verb, fitOut>>

(* the tail of one loop iteration: the trial's row is appended; the next
   statement is the stopRequested poll *)
AppendRow(r) ==
    /\ acc' = Append(acc, Row(k + 1, r))
    /\ k' = k + 1
    /\ pc' = "poll"

(* AP.batchSpikeAnalysis, one iteration up to the inspection prompt *)
APTrial ==
    /\ pc = "loop"
    /\ fn = "AP"
    /\ k < assigned[prot]
    /\ \E ld \in LoadOutcomes :
          IF ld = "IOError" THEN LoadFail
          ELSE IF verbose > 1
               THEN /\ pc' = "apAsk"
                    /\ plots' = TRUE
                    /\ prompts' = TRUE
                    /\ UNCHANGED <<k, acc, exc, reported, mf, verb, fitOut>>
               ELSE /\ AppendRow("ap")
                    /\ UNCHANGED <<exc, reported, plots, prompts, mf, verb, fitOut>>
    /\ UNCHANGED <<busy, toStop, fn, prot, verbose, comp, store, ret, active,
                   stored, assigned, runs>>
    /\ UNCHANGED <<spikeVars, miniVars, auxVars>>

(* the answer to "Good? (y/n, y to continue, n to abort)" *)
APAnswer ==
    /\ pc = "apAsk"
    /\ \E ans \in APAnswers :
          IF ans = "n"
          THEN /\ pc' = "aborted"
               /\ ret' = "0"
               /\ UNCHANGED <<k, acc>>
          ELSE /\ AppendRow("ap")
               /\ UNCHANGED ret
    /\ UNCHANGED <<busy, toStop, fn, prot, verbose, comp, store, exc, reported,
                   plots, prompts, mf, verb, fitOut, active, stored, assigned,
                   runs>>
    /\ UNCHANGED <<spikeVars, miniVars, auxVars>>

(* Mini.batchMiniAnalysis, one iteration; miniAnalysis asks for input when
   its verbose (the batch's verbose - 1) is positive *)
MiniTrial ==
    /\ pc = "loop"
    /\ fn = "Mini"
    /\ k < assigned[prot]
    /\ \E ld \in LoadOutcomes :
          IF ld = "IOError" THEN LoadFail
          ELSE IF verbose - 1 > 0
               THEN /\ pc' = "miniAsk"
                    /\ plots' = TRUE
                    /\ prompts' = TRUE
                    /\ UNCHANGED <<k, acc, exc, reported, mf, verb, fitOut>>
               ELSE /\ AppendRow("mini")
                    /\ UNCHANGED <<exc, reported, plots, prompts, mf, verb, fitOut>>
    /\ UNCHANGED <<busy, toStop, fn, prot, verbose, comp, store, ret, active,
                   stored, assigned, runs>>
    /\ UNCHANGED <<spikeVars, miniVars, auxVars>>

(* "Input any thing to continue." *)
MiniAnswer ==
    /\ pc = "miniAsk"
    /\ AppendRow("mini")
    /\ UNCHANGED <<busy, toStop, fn, prot, verbose, comp, store, ret, exc,
                   reported, plots, prompts, mf, verb, fitOut, active, stored,
                   assigned, runs>>
    /\ UNCHANGED <<spikeVars, miniVars, auxVars>>


---------------------------------------------------------------------------
(* SealTest.stAnalysis / Sub.subAnalysis.  decayFit is deterministic: with
   mf = None every pass of the while loop fits the same trace, so fitOut is
   drawn once per trace; with mf set, thmedfilt is applied again to the
   already filtered trace at the top of every pass, so the outcome is drawn
   again. *)

(* SealTest.batchStAnalysis / Sub.batchSubAnalysis: load the trace and enter
   stAnalysis / subAnalysis; with comp the fit is skipped *)
StTrial ==
    /\ pc = "loop"
    /\ fn \in {"St", "Sub"}
    /\ k < assigned[prot]
    /\ \E ld \in LoadOutcomes :
          IF ld = "IOError" THEN LoadFail
          ELSE /\ mf' = "None"
               /\ verb' = (verbose > 1)
               /\ IF comp
                  THEN /\ AppendRow("steady")
                       /\ UNCHANGED fitOut
                  ELSE /\ pc' = "fit"
                       /\ fitOut' \in FitOutcomes
                       /\ UNCHANGED <<k, acc>>
               /\ UNCHANGED <<exc, reported, plots, prompts>>
    /\ UNCHANGED <<busy, toStop, fn, prot, verbose, comp, store, ret, active,
                   stored, assigned, runs>>
    /\ UNCHANGED <<spikeVars, miniVars, auxVars>>

(* decayFit returned (x0, xs, tau): prompt when verbose or tau < minTau,
   otherwise break with the fit accepted *)
FitReturned ==
    IF verb \/ fitOut = "lowTau"
    THEN /\ verb' = TRUE
         /\ plots' = TRUE
         /\ prompts' = TRUE
         /\ pc' = "ask1"
         /\ UNCHANGED <<k, acc, exc>>
    ELSE /\ AppendRow("fit")
         /\ UNCHANGED <<verb, plots, prompts, exc>>

(* decayFit raised: ValueError is caught and the loop goes round again;
   TypeError is caught and raised again; nothing catches the RuntimeError of
   a fit that does not converge or the IndexError of the initial guess *)
FitRaised ==
    IF fitOut = "ValueError"
    THEN /\ pc' = "fit"
         /\ UNCHANGED <<k, acc, exc, verb, plots, prompts>>
    ELSE /\ pc' = "raised"
         /\ exc' = fitOut
         /\ UNCHANGED <<k, acc, verb, plots, prompts>>

(* one pass of the while loop up to the prompt *)
StFit ==
    /\ pc = "fit"
    /\ IF fitOut \in {"good", "lowTau"} THEN FitReturned ELSE FitRaised
    /\ fitOut' \in (IF mf = "None" \/ pc' # "fit" THEN {fitOut} ELSE FitOutcomes)
    /\ UNCHANGED <<busy, toStop, fn, prot, verbose, comp, store, ret, reported,
                   mf, active, stored, assigned, runs>>
    /\ UNCHANGED <<spikeVars, miniVars, auxVars>>

(* the answer to "Apply/Decrease median filter (m), keep current fitting
   result (k) or ignore this result (default)." *)
StAnswer1 ==
    /\ pc = "ask1"
    /\ \E ans1 \in Answers1 :
          CASE ans1 = "m" -> /\ pc' = "ask2"
                             /\ UNCHANGED <<k, acc>>
            [] ans1 = "k" -> AppendRow("fit")
            [] OTHER      -> AppendRow("steady")
    /\ UNCHANGED <<busy, toStop, fn, prot, verbose, comp, store, ret, exc,
                   reported, plots, prompts, mf, verb, fitOut, active, stored,
                   assigned, runs>>
    /\ UNCHANGED <<spikeVars, miniVars, auxVars>>

(* the answer to "Median filter threshold?": float(ans2) raises ValueError
   on text, which leaves mf as it was *)
StAnswer2 ==
    /\ pc = "ask2"
    /\ pc' = "fit"
    /\ \E ans2 \in Answers2 :
          mf' = IF ans2 = "number" THEN "set" ELSE mf
    /\ fitOut' \in (IF mf' = "None" THEN {fitOut} ELSE FitOutcomes)
    /\ UNCHANGED <<busy, toStop, fn, prot, verbose, comp, k, acc, store, ret,
                   exc, reported, plots, prompts, verb, active, stored,
                   assigned, runs>>
    /\ UNCHANGED <<spikeVars, miniVars, auxVars>>

---------------------------------------------------------------------------
(* the stopRequested poll that ends every loop iteration *)
Poll ==
    /\ pc = "poll"
    /\ IF toStop
       THEN /\ stopRequested
            /\ pc' = "stopped"
            /\ ret' = "0"
       ELSE /\ pc' = "loop"
            /\ UNCHANGED <<toStop, ret>>
    /\ UNCHANGED <<busy, fn, prot, verbose, comp, k, acc, store, exc, reported,
                   plots, prompts, mf, verb, fitOut, active, stored, assigned,
                   runs>>
    /\ UNCHANGED <<spikeVars, miniVars, auxVars>>

(* after the loop: pandas.concat of the list and HDFStore.put, which
   replaces the table of this module and protocol.  concat raises ValueError
   on an empty list; only batchSubAnalysis tests for it.  batchSpikeAnalysis
   returns 1, the others fall off the end. *)
Finish ==
    /\ pc = "loop"
    /\ k = assigned[prot]
    /\ IF acc = <<>> /\ fn # "Sub"
       THEN /\ pc' = "raised"
            /\ exc' = "ValueError"
            /\ UNCHANGED <<store, ret>>
       ELSE /\ pc' = "finished"
            /\ ret' = IF fn = "AP" THEN "1" ELSE "None"
            /\ store' = IF acc = <<>> THEN store
                        ELSE [store EXCEPT ![prot] = acc]
            /\ UNCHANGED exc
    /\ UNCHANGED <<busy, toStop, fn, prot, verbose, comp, k, acc, reported,
                   plots, prompts, mf, verb, fitOut, active, stored, assigned,
                   runs>>
    /\ UNCHANGED <<spikeVars, miniVars, auxVars>>

---------------------------------------------------------------------------
(* Parameters.  The Parameters button lives in ctlWd, which lock disables;
   the dialog is modal.  getParam returns None for an unparsed field. *)
changeBasic ==
    /\ ~busy
    /\ \E p \in ParamVals \cup {-1} :
          IF p = -1
          THEN UNCHANGED <<stored, active>>
          ELSE /\ stored' = p
               /\ active' = p
    /\ UNCHANGED <<busy, toStop, pc, fn, prot, verbose, comp, k, acc, store,
                   ret, exc, reported, plots, prompts, mf, verb, fitOut,
                   assigned, runs>>
    /\ UNCHANGED <<spikeVars, miniVars, auxVars>>

(* wcpMainWindow.importParams, a menu action of the main window: ParamMan.load
   of the chosen file, then updateDisp of every analysis window, which calls
   module.setBasic with the loaded record.  An empty target loads nothing. *)
importParams ==
    /\ \E target \in ParamVals \cup {-1} :
          /\ stored' = IF target = -1 THEN stored ELSE target
          /\ active' = stored'
    /\ UNCHANGED <<busy, toStop, pc, fn, prot, verbose, comp, k, acc, store,
                   ret, exc, reported, plots, prompts, mf, verb, fitOut,
                   assigned, runs>>
    /\ UNCHANGED <<spikeVars, miniVars, auxVars>>

(* wcpMainWindow.selectCells / Project.selectCells: the cells that iterate
   walks through are selected again, here all of them or none; refused with
   the warning "Analysis running." while a window is busy *)
selectCells ==
    /\ ~busy
    /\ assigned' \in {Assigned, NoneSelected}
    /\ assigned' # assigned
    /\ UNCHANGED <<busy, toStop, pc, fn, prot, verbose, comp, k, acc, store,
                   ret, exc, reported, plots, prompts, mf, verb, fitOut, active,
                   stored, runs>>
    /\ UNCHANGED <<spikeVars, miniVars, auxVars>>

Next ==
    \/ StartRun
    \/ JobDone
    \/ abort
    \/ APTrial
    \/ APAnswer
    \/ MiniTrial
    \/ MiniAnswer
    \/ StTrial
    \/ StFit
    \/ StAnswer1
    \/ StAnswer2
    \/ Poll
    \/ Finish
    \/ changeBasic
    \/ importParams
    \/ selectCells


---------------------------------------------------------------------------
(* AP.spikeAnalysis: the onset scan and the properties of the spikes.
   Indices are 0-based as in the code; times are whole multiples of 10 ms
   and sr is in samples per 10 ms, so that every product the code compares
   is an integer and int(sr / 100) is sr.  mAHP_begin and mAHP_end stand for
   mAHP_begin * sr and mAHP_end * sr, in samples. *)
MaxLen == 5         \* samples in a trace
MaxVal == 2         \* sample values 0..MaxVal

Rates == {1, 2}
StimStarts == {0, 1}
StimDurs == {0, 2, 4}
Signs == {1, -1}
SlopeThs == {-1, 0, 1}
PeakThs == {0, 1}
WidthThs == {1, 3}

(* element idx of a 0-based array *)
At(a, idx) == a[idx + 1]

(* numpy.diff(trace) * sr *)
trace_diff(tr, rate) == [n \in 1..(Len(tr) - 1) |-> (tr[n + 1] - tr[n]) * rate]

(* numpy.nonzero(mask)[0]: the 0-based indices where mask holds, ascending *)
RECURSIVE nonzero(_, _)
nonzero(mask, n) ==
    IF n > Len(mask) THEN <<>>
    ELSE IF mask[n] THEN <<n - 1>> \o nonzero(mask, n + 1)
         ELSE nonzero(mask, n + 1)

(* PStart with the comparison made inclusive *)
PStartInclusive(tr, rate, th) ==
    nonzero([n \in 1..(Len(tr) - 1) |-> trace_diff(tr, rate)[n] >= th], 1)

(* trace_diff > slope_th *)
PStart(tr, rate, th) ==
    nonzero([n \in 1..(Len(tr) - 1) |-> trace_diff(tr, rate)[n] > th], 1)

(* trace_diff < 0 *)
Reverse(tr, rate) ==
    nonzero([n \in 1..(Len(tr) - 1) |-> trace_diff(tr, rate)[n] < 0], 1)

(* trialProps before the rate is set; the rate len(apProps) / stim[1] is
   kept as the pair <<count, duration>> *)
NoProps == [rate |-> <<>>]

AHPParams == [mAHP_begin : {1}, mAHP_end : {2}]

SpikeInit ==
    /\ sr \in Rates
    /\ AHPParam \in AHPParams
    /\ apProps = <<>>
    /\ stim \in StimStarts \X StimDurs
    /\ sign \in Signs
    /\ slope_th \in SlopeThs
    /\ peak_th \in PeakThs
    /\ width_th \in WidthThs
    /\ \E raw \in [1..MaxLen -> 0..MaxVal] :
          trace = [n \in 1..MaxLen |-> IF sign < 0 THEN raw[n] * sign ELSE raw[n]]
    /\ pstart = PStart(trace, sr, slope_th)
    /\ reverse = Reverse(trace, sr)
    /\ i = 0
    /\ j = 0
    /\ starts = <<>>
    /\ trialProps = NoProps
    /\ spc = "scan"

(* the traces on which the properties of the spikes are followed: 30 ms
   windows at 3 samples per 10 ms, the stimulation covering the trace *)
MaxSamples == 7     \* samples in such a trace

PropsInit ==
    /\ sr = 3
    /\ stim = <<0, 4>>
    /\ sign = 1
    /\ slope_th = 0
    /\ peak_th \in PeakThs
    /\ width_th \in WidthThs
    /\ AHPParam \in AHPParams
    /\ apProps = <<>>
    /\ trace \in [1..MaxSamples -> 0..MaxVal]
    /\ pstart = PStart(trace, sr, slope_th)
    /\ reverse = Reverse(trace, sr)
    /\ i = 0
    /\ j = 0
    /\ starts = <<>>
    /\ trialProps = NoProps
    /\ spc = "scan"

(* the condition of the while loop *)
Scanning ==
    /\ i < Len(pstart)
    /\ j < Len(reverse)
    /\ At(pstart, i) < sr * (stim[1] + stim[2])

(* IsOnset with the width test made inclusive *)
IsOnsetWide(r, p) ==
    /\ peak_th < At(trace, p) - At(trace, r)
    /\ p - r <= width_th * sr

(* IsOnset without the test of the amplitude *)
IsOnsetAnyPeak(r, p) == p - r < width_th * sr

(* the test that makes pstart[i] an onset *)
IsOnset(r, p) ==
    /\ peak_th < At(trace, p) - At(trace, r)
    /\ p - r < width_th * sr

(* SkipBurst with the inner while left out *)
SkipBurstNone(n, p) == n

(* i after the inner while: the first candidate not before reverse[j] *)
RECURSIVE SkipBurst(_, _)
SkipBurst(n, p) ==
    IF n < Len(pstart) /\ At(pstart, n) < p THEN SkipBurst(n + 1, p) ELSE n

(* one pass of the while loop *)
SpikeStep ==
    /\ spc = "scan"
    /\ Scanning
    /\ \/ /\ At(pstart, i) < sr * stim[1]
          /\ i' = i + 1
          /\ UNCHANGED <<j, starts>>
       \/ /\ At(pstart, i) >= sr * stim[1]
          /\ At(pstart, i) < At(reverse, j)
          /\ IsOnset(At(pstart, i), At(reverse, j))
          /\ starts' = Append(starts, At(pstart, i))
          /\ i' = SkipBurst(i, At(reverse, j))
          /\ UNCHANGED j
       \/ /\ At(pstart, i) >= sr * stim[1]
          /\ At(pstart, i) < At(reverse, j)
          /\ ~IsOnset(At(pstart, i), At(reverse, j))
          /\ i' = i + 1
          /\ UNCHANGED <<j, starts>>
       \/ /\ At(pstart, i) >= sr * stim[1]
          /\ At(pstart, i) >= At(reverse, j)
          /\ j' = j + 1
          /\ UNCHANGED <<i, starts>>
    /\ UNCHANGED <<trace, sr, stim, sign, slope_th, peak_th, width_th, pstart,
                   reverse, AHPParam, apProps, trialProps, spc>>
    /\ UNCHANGED <<sysVars, miniVars, auxVars>>

Min2(a, b) == IF a < b THEN a ELSE b

(* a[lo:hi] for 0 <= lo and 0 <= hi *)
SliceOf(a, lo, hi) == SubSeq(a, lo + 1, Min2(hi, Len(a)))

(* numpy.argmax / numpy.argmin: the first index of the extremum *)
argmax(a) ==
    CHOOSE n \in 0..(Len(a) - 1) :
        /\ \A m \in 0..(Len(a) - 1) : At(a, m) <= At(a, n)
        /\ \A m \in 0..(n - 1) : At(a, m) < At(a, n)

argmin(a) ==
    CHOOSE n \in 0..(Len(a) - 1) :
        /\ \A m \in 0..(Len(a) - 1) : At(a, m) >= At(a, n)
        /\ \A m \in 0..(n - 1) : At(a, m) > At(a, n)

(* numpy.min *)
SeqMin(a) == At(a, argmin(a))

(* int(sr / 100): the window searched for the peak of the last spike *)
LastWin(rate) == rate

(* where the window of the mAHP minimum begins: int(mAHPb * sr) *)
AHPFrom(st) == AHPParam.mAHP_begin

(* one pass of the for loop over the spikes: peak_point, troph_point, mAHP,
   amp and the half width.  np.min of an empty window raises ValueError;
   the half width takes the last point above half between the peak and the
   trough, and raises IndexError when there is none.  mAHP is <<>> for
   nan. *)
SpikeRow(s) ==
    LET st == starts[s]
        last == s = Len(starts)
        hi == IF last THEN st + LastWin(sr) ELSE starts[s + 1]
        peak_point == argmax(SliceOf(trace, st, hi))
        pk == st + peak_point
        troph_point == argmin(SliceOf(trace, pk, hi))
        ahpOn == ~last /\ st + AHPParam.mAHP_begin < starts[s + 1]
        ahpWin == IF ahpOn
                  THEN SliceOf(trace, AHPFrom(st),
                               Min2(st + AHPParam.mAHP_end, starts[s + 1]))
                  ELSE <<>>
        above == {n \in pk..(pk + troph_point - 1) :
                     2 * At(trace, n) > At(trace, pk) + At(trace, st)}
    IN  [peak |-> pk,
         amp |-> At(trace, pk) - At(trace, st),
         mAHP |-> IF ahpOn /\ ahpWin # <<>>
                  THEN <<At(trace, st) - SeqMin(ahpWin)>> ELSE <<>>,
         err |-> IF ahpOn /\ ahpWin = <<>> THEN "ValueError"
                 ELSE IF above = {} THEN "IndexError" ELSE "none"]

(* the loop ends: apProps["starts"] = starts, the properties of every spike
   and of the trial *)
SpikeExit ==
    /\ spc = "scan"
    /\ ~Scanning
    /\ LET rows == [s \in 1..Len(starts) |-> SpikeRow(s)]
           failed == {s \in 1..Len(starts) : rows[s].err # "none"}
       IN  IF failed # {}
           THEN /\ spc' = rows[CHOOSE s \in failed : \A t \in failed : s <= t].err
                /\ UNCHANGED <<apProps, trialProps>>
           ELSE /\ apProps' = [s \in 1..Len(starts) |->
                                  [start |-> starts[s], peak |-> rows[s].peak,
                                   amp |-> rows[s].amp, mAHP |-> rows[s].mAHP]]
                /\ IF stim[2] = 0
                   THEN /\ spc' = "ZeroDivisionError"
                        /\ UNCHANGED trialProps
                   ELSE /\ spc' = "done"
                        /\ trialProps' = [rate |-> <<Len(starts), stim[2]>>]
    /\ UNCHANGED <<trace, sr, stim, sign, slope_th, peak_th, width_th, pstart,
                   reverse, i, j, starts, AHPParam>>
    /\ UNCHANGED <<sysVars, miniVars, auxVars>>

NextSpike ==
    \/ SpikeStep
    \/ SpikeExit

---------------------------------------------------------------------------
(* Mini.miniAnalysis: the scan of the candidate list.  Indices are 0-based
   and times are counted in samples (riseTime and stackWin stand for
   riseTime * sr and stackWin * sr).  The amplitude test compares means of
   the real-valued trace and is an input of each pass; so is the result of
   curve_fit.  verbose is 0: no plot, no prompt.  The call
   self.smooth(x, sr, lowBandWidth) is taken to return the low-pass filtered
   trace whose derivative is dfx. *)
MaxD == 5           \* samples in the derivative

DVals == {-1, 0, 1, 3}
MiniParams == [riseSlope : {2}, riseTime : {1, 4}, stackWin : {1, 2},
               minTau : {1}, residual : {1}]
TauVals == {0, 1, 2}
ResVals == {0, 1, 2}
FitErrors == {"RuntimeError", "ValueError"}
NoFit == [st |-> "none", tau_decay |-> 0, res |-> 0]

(* (0 < dfx[0:-1]) & (dfx[1:] < 0) *)
Peaks(d) == [n \in 1..(Len(d) - 1) |-> 0 < d[n] /\ d[n + 1] < 0]

(* (dfx[0:-1] < 0) & (0 < dfx[1:]) *)
Troughs(d) == [n \in 1..(Len(d) - 1) |-> d[n] < 0 /\ 0 < d[n + 1]]

(* (dfx[0:-1] < riseSlope) & (riseSlope < dfx[1:]) *)
Rises(d, th) == [n \in 1..(Len(d) - 1) |-> d[n] < th /\ th < d[n + 1]]

(* numpy.concatenate((nonzero(peaks | rises | troughs)[0], [int(win[1] * sr)])) *)
PtrInds(pk, rs, tr, w) ==
    nonzero([n \in 1..Len(pk) |-> pk[n] \/ rs[n] \/ tr[n]], 1) \o <<w[2]>>

(* len(x): the analysed segment has one sample more than its derivative *)
LenX == Len(dfx) + 1

(* len(x[a:b]) for 0 <= a *)
SliceLen(a, b) ==
    LET hi == IF b > LenX THEN LenX ELSE b
    IN  IF hi > a THEN hi - a ELSE 0

MiniInit ==
    /\ miniParam \in MiniParams
    /\ dfx \in [1..MaxD -> DVals]
    /\ win \in {<<0, 0>>, <<0, MaxD + 1>>, <<1, MaxD + 2>>}
    /\ peaks = Peaks(dfx)
    /\ troughs = Troughs(dfx)
    /\ rises = Rises(dfx, miniParam.riseSlope)
    /\ ptrInds = PtrInds(peaks, rises, troughs, win)
    /\ lastRise = -miniParam.riseTime
    /\ last2Rise = 0
    /\ peakStack = <<>>
    /\ mi = 0
    /\ popt = NoFit
    /\ events = <<>>
    /\ log = <<>>
    /\ mpc = "scan"

(* Emit with the two tests joined by "or" *)
EmitEither(fit) ==
    miniParam.minTau < fit.tau_decay \/ fit.res < miniParam.residual

(* the test that records a fitted candidate *)
Emit(fit) ==
    miniParam.minTau < fit.tau_decay /\ fit.res < miniParam.residual

(* except RuntimeError: prt("Fit Error"); except ValueError:
   prt("Initialization Error") *)
Caught(st, lg) ==
    CASE st = "RuntimeError" -> Append(lg, "Fit Error")
      [] st = "ValueError" -> Append(lg, "Initialization Error")
      [] OTHER -> lg

(* where miniAnalysis is after the try block: both exceptions are caught
   and the for loop goes on *)
AfterFit(st) == "scan"

(* the try block: curve_fit on x[lastRise:ptrInds[i + 1]] and the test of
   its result; both exceptions are caught and logged *)
FitCandidate ==
    /\ \E fit \in [st : {"ok"}, tau_decay : TauVals, res : ResVals]
                    \cup [st : FitErrors, tau_decay : {0}, res : {0}] :
          /\ SliceLen(lastRise, At(ptrInds, mi + 1)) = 0 => fit.st = "ValueError"
          /\ popt' = fit
    /\ events' = IF popt'.st = "ok" /\ Emit(popt')
                 THEN Append(events, [peak |-> At(ptrInds, mi),
                                      rise |-> lastRise,
                                      decay |-> popt'.tau_decay])
                 ELSE events
    /\ log' = Caught(popt'.st, log)
    /\ mpc' = AfterFit(popt'.st)

(* one pass of the for loop *)
MiniStep ==
    /\ mpc = "scan"
    /\ mi < Len(ptrInds) - 1
    /\ mi' = mi + 1
    /\ LET cur == At(ptrInds, mi)
           nxt == At(ptrInds, mi + 1)
       IN  \/ /\ At(peaks, cur)
              /\ cur - lastRise < miniParam.riseTime \/ peakStack # <<>>
              /\ peakStack # <<>>
              /\ nxt - peakStack[1] < miniParam.stackWin
              /\ peakStack' = Append(peakStack, cur)
              /\ popt' = NoFit
              /\ UNCHANGED <<lastRise, last2Rise, events, log, mpc>>
           \/ /\ At(peaks, cur)
              /\ cur - lastRise < miniParam.riseTime \/ peakStack # <<>>
              /\ ~(peakStack # <<>> /\ nxt - peakStack[1] < miniParam.stackWin)
              /\ \E ampOk \in BOOLEAN :
                    IF ampOk \/ peakStack # <<>>
                    THEN IF /\ peakStack = <<>>
                            /\ nxt - cur < miniParam.stackWin
                            /\ mi + 3 < Len(ptrInds)
                            /\ ~At(rises, At(ptrInds, mi + 2))
                         THEN /\ peakStack' = Append(peakStack, cur)
                              /\ popt' = NoFit
                              /\ UNCHANGED <<events, log, mpc>>
                         ELSE /\ peakStack' = <<>>
                              /\ FitCandidate
                    ELSE /\ popt' = NoFit
                         /\ UNCHANGED <<peakStack, events, log, mpc>>
              /\ UNCHANGED <<lastRise, last2Rise>>
           \/ /\ At(peaks, cur)
              /\ ~(cur - lastRise < miniParam.riseTime \/ peakStack # <<>>)
              /\ popt' = NoFit
              /\ UNCHANGED <<lastRise, last2Rise, peakStack, events, log, mpc>>
           \/ /\ ~At(peaks, cur)
              /\ At(rises, cur)
              /\ last2Rise' = lastRise
              /\ lastRise' = cur
              /\ popt' = NoFit
              /\ UNCHANGED <<peakStack, events, log, mpc>>
           \/ /\ ~At(peaks, cur)
              /\ ~At(rises, cur)
              /\ popt' = NoFit
              /\ UNCHANGED <<lastRise, last2Rise, peakStack, events, log, mpc>>
    /\ UNCHANGED <<miniParam, win, dfx, peaks, troughs, rises, ptrInds>>
    /\ UNCHANGED <<sysVars, spikeVars, auxVars>>

(* the loop ends: miniProps is built from the lists *)
MiniExit ==
    /\ mpc = "scan"
    /\ mi >= Len(ptrInds) - 1
    /\ mpc' = "done"
    /\ UNCHANGED <<miniParam, win, dfx, peaks, troughs, rises, ptrInds,
                   lastRise, last2Rise, peakStack, mi, popt, events, log>>
    /\ UNCHANGED <<sysVars, spikeVars, auxVars>>

NextMini ==
    \/ MiniStep
    \/ MiniExit

---------------------------------------------------------------------------
(* SignalProc.thmedfilt.  scipy.signal.medfilt pads the signal with zeros
   and raises ValueError for an even kernel size. *)
MaxX == 4           \* samples in the signal

XVals == {0, 1, 3}
WSizes == {1, 2, 3, 5}
Threshs == {0, 1, 2}

Abs(n) == IF n < 0 THEN -n ELSE n

(* the window of w samples centred on sample n (1-based), zero padded *)
Window(a, n, w) ==
    [m \in 1..w |->
        LET idx == n - (w \div 2) + m - 1
        IN  IF idx >= 1 /\ idx <= Len(a) THEN a[idx] ELSE 0]

(* the middle value of the sorted window *)
Median(wd) ==
    CHOOSE v \in {wd[m] : m \in 1..Len(wd)} :
        /\ Cardinality({m \in 1..Len(wd) : wd[m] < v}) <= Len(wd) \div 2
        /\ Cardinality({m \in 1..Len(wd) : wd[m] <= v}) > Len(wd) \div 2

(* y = signal.medfilt(x, wsize) *)
medfilt(a, w) == [n \in 1..Len(a) |-> Median(Window(a, n, w))]

(* thmedfilt with the samples at the threshold filtered as well *)
thmedfiltInclusive(a, w, th) ==
    LET y == medfilt(a, w)
    IN  [n \in 1..Len(a) |-> IF th <= Abs(y[n] - a[n]) THEN y[n] ELSE a[n]]

(* thmedfilt without the threshold: the plain median filter *)
thmedfiltPlain(a, w, th) == medfilt(a, w)

(* z = np.where(thresh < abs(y - x), y, x) *)
thmedfilt(a, w, th) ==
    LET y == medfilt(a, w)
    IN  [n \in 1..Len(a) |-> IF th < Abs(y[n] - a[n]) THEN y[n] ELSE a[n]]

MedInit ==
    /\ x \in UNION {[1..n -> XVals] : n \in 1..MaxX}
    /\ wsize \in WSizes
    /\ thresh \in Threshs
    /\ z = <<>>
    /\ zz = <<>>
    /\ tpc = "call"

(* thmedfilt(x, wsize, thresh) *)
MedCall ==
    /\ tpc = "call"
    /\ IF wsize % 2 = 0
       THEN /\ tpc' = "ValueError"
            /\ UNCHANGED z
       ELSE /\ z' = thmedfilt(x, wsize, thresh)
            /\ tpc' = "again"
    /\ UNCHANGED <<x, wsize, thresh, zz>>
    /\ UNCHANGED <<sysVars, spikeVars, miniVars, cfgVars, rateVars, moreVars>>

(* thmedfilt(z, wsize, thresh): the filter applied to its own output, as the
   retry loop of stAnalysis does *)
MedAgain ==
    /\ tpc = "again"
    /\ zz' = thmedfilt(z, wsize, thresh)
    /\ tpc' = "done"
    /\ UNCHANGED <<x, wsize, thresh, z>>
    /\ UNCHANGED <<sysVars, spikeVars, miniVars, cfgVars, rateVars, moreVars>>

NextMed ==
    \/ MedCall
    \/ MedAgain

MedIdle ==
    /\ x = <<>>
    /\ wsize = 1
    /\ thresh = 0
    /\ z = <<>>
    /\ zz = <<>>
    /\ tpc = "done"

---------------------------------------------------------------------------
(* Project.setFilters and the filter loop of Project.loadWave.  A parameter
   of a requested filter is text: float() / int() turns it into a number or
   raises ValueError.  Frequencies are in Hz, the median threshold in pA. *)
MaxFilters == 2     \* filters in one request

FilterNames == {"median", "butter,lowpass", "butter,bandpass", "bessel,bandpass"}
Bandpass == {"butter,bandpass", "bessel,bandpass"}
FreqVals == {500, 2000, 6000}
Texts == [ok : {TRUE}, v : FreqVals] \cup {[ok |-> FALSE, v |-> 0]}
SrLoaded == {10000}

(* a requested filter: p1, p2 are winSize, threshold for "median", freq for
   a lowpass (p2 is not there), freq_low, freq_high for a bandpass *)
Requests == [name : FilterNames, p1 : Texts, p2 : Texts]

(* an installed filter; the keys a filter does not have hold 0 *)
Fc(name, winSize, threshold, freq, freq_low, freq_high) ==
    [name |-> name, winSize |-> winSize, threshold |-> threshold,
     freq |-> freq, freq_low |-> freq_low, freq_high |-> freq_high]

(* getDefaultFilters("num"), the entry of the name *)
getDefaultFilters(name) ==
    CASE name = "median" -> Fc(name, 5, 30, 0, 0, 0)
      [] name = "butter,lowpass" -> Fc(name, 0, 0, 500, 0, 0)
      [] OTHER -> Fc(name, 0, 0, 0, 500, 2000)

(* the test of an inverted band left out *)
ConvertUnchecked(f) ==
    IF f.name = "median"
    THEN IF f.p1.ok /\ f.p2.ok
         THEN [ok |-> TRUE, fc |-> Fc(f.name, f.p1.v, f.p2.v, 0, 0, 0)]
         ELSE [ok |-> FALSE, fc |-> getDefaultFilters(f.name)]
    ELSE IF f.name \in Bandpass
    THEN IF f.p1.ok /\ f.p2.ok
         THEN [ok |-> TRUE, fc |-> Fc(f.name, 0, 0, 0, f.p1.v, f.p2.v)]
         ELSE [ok |-> FALSE, fc |-> getDefaultFilters(f.name)]
    ELSE IF f.p1.ok
         THEN [ok |-> TRUE, fc |-> Fc(f.name, 0, 0, f.p1.v, 0, 0)]
         ELSE [ok |-> FALSE, fc |-> getDefaultFilters(f.name)]

(* one pass of the loop of setFilters: the filter installed for f and
   whether f was valid *)
Convert(f) ==
    IF f.name = "median"
    THEN IF f.p1.ok /\ f.p2.ok
         THEN [ok |-> TRUE, fc |-> Fc(f.name, f.p1.v, f.p2.v, 0, 0, 0)]
         ELSE [ok |-> FALSE, fc |-> getDefaultFilters(f.name)]
    ELSE IF f.name \in Bandpass
    THEN IF f.p1.ok /\ f.p2.ok
         THEN IF f.p2.v <= f.p1.v
              THEN [ok |-> FALSE, fc |-> getDefaultFilters(f.name)]
              ELSE [ok |-> TRUE, fc |-> Fc(f.name, 0, 0, 0, f.p1.v, f.p2.v)]
         ELSE [ok |-> FALSE, fc |-> getDefaultFilters(f.name)]
    ELSE IF f.p1.ok
         THEN [ok |-> TRUE, fc |-> Fc(f.name, 0, 0, f.p1.v, 0, 0)]
         ELSE [ok |-> FALSE, fc |-> getDefaultFilters(f.name)]

CfgInit ==
    /\ fs \in UNION {[1..n -> Requests] : n \in 1..MaxFilters}
    /\ filters = <<>>
    /\ fret = 1
    /\ calls = <<>>
    /\ cpc = "init"

(* Project.setFilters(fs) *)
setFilters ==
    /\ cpc = "init"
    /\ filters' = [n \in 1..Len(fs) |-> Convert(fs[n]).fc]
    /\ fret' = IF \A n \in 1..Len(fs) : Convert(fs[n]).ok THEN 1 ELSE 0
    /\ cpc' = "set"
    /\ UNCHANGED <<fs, calls>>
    /\ UNCHANGED <<sysVars, spikeVars, miniVars, medVars, rateVars, moreVars>>

(* scipy iirfilter: the critical frequencies band / sr * 2 must lie strictly
   between 0 and 1 *)
Critical(freq, rate) == 0 < freq * 2 /\ freq * 2 < rate

(* Project.loadWave, one pass of "for f in self.filters": a median filter
   goes to thmedfilt, the others to smooth; an exception of smooth leaves
   loadWave *)
loadWaveFilter ==
    /\ cpc = "set"
    /\ Len(calls) < Len(filters)
    /\ \E rate \in SrLoaded :
          LET f == filters[Len(calls) + 1]
              call == IF f.name = "median"
                      THEN [foo |-> "thmedfilt", band |-> <<f.winSize, f.threshold>>]
                      ELSE IF f.name \in Bandpass
                      THEN [foo |-> "smooth", band |-> <<f.freq_low, f.freq_high>>]
                      ELSE [foo |-> "smooth", band |-> <<f.freq>>]
          IN  /\ calls' = Append(calls, call)
              /\ cpc' = IF /\ call.foo = "smooth"
                           /\ \E n \in 1..Len(call.band) : ~Critical(call.band[n], rate)
                        THEN "ValueError"
                        ELSE "set"
    /\ UNCHANGED <<fs, filters, fret>>
    /\ UNCHANGED <<sysVars, spikeVars, miniVars, medVars, rateVars, moreVars>>

(* the loop is done: loadWave returns the filtered trace *)
loadWaveReturn ==
    /\ cpc = "set"
    /\ Len(calls) = Len(filters)
    /\ cpc' = "loaded"
    /\ UNCHANGED <<fs, filters, fret, calls>>
    /\ UNCHANGED <<sysVars, spikeVars, miniVars, medVars, rateVars, moreVars>>

NextCfg ==
    \/ setFilters
    \/ loadWaveFilter
    \/ loadWaveReturn

CfgIdle ==
    /\ fs = <<>>
    /\ filters = <<>>
    /\ fret = 1
    /\ calls = <<>>
    /\ cpc = "loaded"

---------------------------------------------------------------------------
(* The event rate of a cell: the trialProps rows written by
   Mini.batchMiniAnalysis and summed by Mini.aveProps.  Times are counted in
   samples. *)
MaxMiniTrials == 2  \* trials of the cell
MaxEvents == 1      \* events found in one trial

TraceLens == {2, 3}
BatchWins == {<<0, 0>>, <<0, 2>>, <<1, 3>>, <<1, 4>>}

(* miniAnalysis: x = trace[int(sr * win[0]):int(sr * win[1])] when
   win[0] != win[1], the whole trace otherwise; the number of samples of x
   for a trace of n samples *)
LenAnalysed(w, n) ==
    IF w[1] # w[2]
    THEN LET hi == IF w[2] > n THEN n ELSE w[2]
         IN  IF hi > w[1] THEN hi - w[1] ELSE 0
    ELSE n

RECURSIVE Sum(_, _)
Sum(rows, key) ==
    IF rows = <<>> THEN 0 ELSE rows[1][key] + Sum(Tail(rows), key)

RECURSIVE SumSeq(_)
SumSeq(a) == IF a = <<>> THEN 0 ELSE a[1] + SumSeq(Tail(a))

NoSums == [num |-> 0, dur |-> 0, rate |-> <<>>]

RateInit ==
    /\ bwin \in BatchWins
    /\ lens \in UNION {[1..n -> TraceLens] : n \in 1..MaxMiniTrials}
    /\ analysed = <<>>
    /\ mTrialProps = <<>>
    /\ sumTrialProps = NoSums
    /\ rpc = "batch"

(* dur = win[1] - win[0] *)
Dur(w) == w[2] - w[1]

(* batchMiniAnalysis, one trial: miniAnalysis finds num events in x and the
   row {"dur": dur, "num": len(props)} is appended *)
MiniTrialRow ==
    /\ rpc = "batch"
    /\ Len(mTrialProps) < Len(lens)
    /\ LET n == lens[Len(mTrialProps) + 1]
       IN  /\ analysed' = Append(analysed, LenAnalysed(bwin, n))
           /\ \E num \in 0..MaxEvents :
                 /\ num <= LenAnalysed(bwin, n)
                 /\ mTrialProps' = Append(mTrialProps,
                                          [dur |-> Dur(bwin), num |-> num])
    /\ UNCHANGED <<bwin, lens, sumTrialProps, rpc>>
    /\ UNCHANGED <<sysVars, spikeVars, miniVars, medVars, cfgVars, moreVars>>

(* batchMiniAnalysis after the last trial: store.put of trialProps *)
MiniStoreRows ==
    /\ rpc = "batch"
    /\ Len(mTrialProps) = Len(lens)
    /\ rpc' = "stored"
    /\ UNCHANGED <<bwin, lens, analysed, mTrialProps, sumTrialProps>>
    /\ UNCHANGED <<sysVars, spikeVars, miniVars, medVars, cfgVars, moreVars>>

(* aveProps: sumTrialProps = trialProps.groupby("cell").sum() and
   rate = num / dur; pandas divides by zero into inf, and 0 / 0 into nan.
   The rate is kept as the pair <<num, dur>>. *)
aveProps ==
    /\ rpc = "stored"
    /\ LET num == Sum(mTrialProps, "num")
           dur == Sum(mTrialProps, "dur")
       IN  sumTrialProps' =
               [num |-> num, dur |-> dur,
                rate |-> IF dur # 0 THEN <<num, dur>>
                         ELSE IF num # 0 THEN <<"inf">> ELSE <<"nan">>]
    /\ rpc' = "averaged"
    /\ UNCHANGED <<bwin, lens, analysed, mTrialProps>>
    /\ UNCHANGED <<sysVars, spikeVars, miniVars, medVars, cfgVars, moreVars>>

NextRate ==
    \/ MiniTrialRow
    \/ MiniStoreRows
    \/ aveProps

RateIdle ==
    /\ bwin = <<0, 0>>
    /\ lens = <<>>
    /\ analysed = <<>>
    /\ mTrialProps = <<>>
    /\ sumTrialProps = NoSums
    /\ rpc = "averaged"

---------------------------------------------------------------------------
(* SealTest.stAnalysis / Sub.subAnalysis after the retry loop: the row
   [Rin, Rs, Cm].  Quotients are kept as fractions <<numerator, denominator>>;
   the trace enters through the means of its baseline and steady state
   windows, the fit through the (x0, xs, tau) decayFit returned. *)
RECURSIVE Gcd(_, _)
Gcd(m, n) == IF n = 0 THEN m ELSE Gcd(n, m % n)

(* a fraction in lowest terms with a positive denominator; a zero
   denominator is kept *)
Lowest(f) ==
    LET n == IF f[2] < 0 THEN 0 - f[1] ELSE f[1]
        d == IF f[2] < 0 THEN 0 - f[2] ELSE f[2]
        g == Gcd(IF n < 0 THEN 0 - n ELSE n, d)
    IN  IF g = 0 THEN <<n, d>> ELSE <<n \div g, d \div g>>

F(n) == <<n, 1>>
FAdd(a, b) == Lowest(<<a[1] * b[2] + b[1] * a[2], a[2] * b[2]>>)
FSub(a, b) == Lowest(<<a[1] * b[2] - b[1] * a[2], a[2] * b[2]>>)
FMul(a, b) == Lowest(<<a[1] * b[1], a[2] * b[2]>>)
FDiv(a, b) == Lowest(<<a[1] * b[2], a[2] * b[1]>>)
FEq(a, b) == a[1] * b[2] = b[1] * a[2]

StModules == {"St", "Sub"}
Clamps == {"v", "i"}
Amps == {1, 2}          \* stParam["ampV"] / stParam["ampI"] / stim[2]
Scales == {1, 2}        \* scaleV / scaleI
BaseMeans == {0, 2}     \* np.mean of the trace over the baseline window
SteadyMeans == {3, 5}   \* np.mean of the trace over the steady state window
X0s == {6, 8}           \* x0 of the fit
Xss == {4, 5}           \* xs of the fit
Taus == {1, 2}          \* tau of the fit

NoRow == [Rin |-> F(0), Rs |-> F(0), Cm |-> F(0)]

PropInit ==
    /\ stArgs \in [fn : StModules, clamp : Clamps, amp : Amps, scale : Scales,
                   meanBase : BaseMeans, meanSteady : SteadyMeans,
                   x0 : X0s, xs : Xss, tau : Taus, trapped : BOOLEAN]
    /\ stProps = NoRow
    /\ dpc = "call"

(* the row from baseline, steadyState and the fit, for the steady state
   value ss used for Rin *)
Props(a, baseline, steadyState, ss) ==
    IF a.trapped
    THEN IF a.clamp = "v"
         THEN LET Rs == FDiv(F(a.amp), FSub(F(a.x0), baseline))
                  Rin == FSub(FDiv(F(a.amp), FSub(ss, baseline)), Rs)
              IN  [Rin |-> Rin, Rs |-> Rs,
                   Cm |-> FDiv(FDiv(FMul(F(a.tau), FAdd(Rin, Rs)), Rin), Rs)]
         ELSE LET Rs == FDiv(FSub(F(a.x0), baseline), F(a.amp))
                  Rin == FSub(FDiv(FSub(ss, baseline), F(a.amp)), Rs)
              IN  [Rin |-> Rin, Rs |-> Rs, Cm |-> FDiv(F(a.tau), Rin)]
    ELSE [Rin |-> IF a.clamp = "v"
                  THEN FDiv(F(a.amp), FSub(steadyState, baseline))
                  ELSE FDiv(FSub(steadyState, baseline), F(a.amp)),
          Rs |-> F(0), Cm |-> F(0)]

(* stAnalysis: steadyState and baseline are the window means divided by
   scale; Rin from xs of the fit *)
stAnalysis ==
    /\ dpc = "call"
    /\ stArgs.fn = "St"
    /\ LET baseline == <<stArgs.meanBase, stArgs.scale>>
           steadyState == <<stArgs.meanSteady, stArgs.scale>>
       IN  stProps' = Props(stArgs, baseline, steadyState, F(stArgs.xs))
    /\ dpc' = "returned"
    /\ UNCHANGED stArgs
    /\ UNCHANGED <<sysVars, spikeVars, miniVars, medVars, cfgVars, rateVars>>
    /\ UNCHANGED <<stopVars, basicVars, widgetVars>>

(* subAnalysis: steadyState and baseline are the window means; Rin from
   steadyState *)
subAnalysis ==
    /\ dpc = "call"
    /\ stArgs.fn = "Sub"
    /\ LET baseline == F(stArgs.meanBase)
           steadyState == F(stArgs.meanSteady)
       IN  stProps' = Props(stArgs, baseline, steadyState, steadyState)
    /\ dpc' = "returned"
    /\ UNCHANGED stArgs
    /\ UNCHANGED <<sysVars, spikeVars, miniVars, medVars, cfgVars, rateVars>>
    /\ UNCHANGED <<stopVars, basicVars, widgetVars>>

NextProp ==
    \/ stAnalysis
    \/ subAnalysis

PropIdle ==
    /\ stArgs = [fn |-> "St", clamp |-> "v", amp |-> 1, scale |-> 1,
                 meanBase |-> 0, meanSteady |-> 3, x0 |-> 6, xs |-> 4,
                 tau |-> 1, trapped |-> FALSE]
    /\ stProps = NoRow
    /\ dpc = "returned"

---------------------------------------------------------------------------
(* Analysis.stop and Analysis.stopRequested of one module, statement by
   statement: the thread of the window calls stop(), the worker threads of
   the module call stopRequested(). *)
MaxStops == 2       \* calls of stop()
MaxPolls == 3       \* calls of stopRequested()

Pollers == {"w1", "w2"}
Threads == {"gui"} \cup Pollers

StopInit ==
    /\ qm = "free"
    /\ flag = FALSE
    /\ at = [t \in Threads |-> "idle"]
    /\ rets = [t \in Pollers |-> FALSE]
    /\ stops = 0
    /\ trues = 0

(* QMutex.lock returns at once whoever holds the mutex *)
CanLockAlways(t) == TRUE

(* QMutex.lock returns when no thread holds the mutex *)
CanLock(t) == qm = "free"

(* a thread enters stop() or stopRequested() *)
Enter(t) ==
    /\ at[t] = "idle"
    /\ IF t = "gui" THEN stops + 1 <= MaxStops
       ELSE trues + Cardinality({u \in Pollers : at[u] # "idle"}) < MaxPolls
    /\ at' = [at EXCEPT ![t] = "lock"]
    /\ UNCHANGED <<qm, flag, rets, stops, trues>>
    /\ UNCHANGED <<sysVars, spikeVars, miniVars, medVars, cfgVars, rateVars>>
    /\ UNCHANGED <<propVars, basicVars, widgetVars>>

(* self.qm.lock() *)
QmLock(t) ==
    /\ at[t] = "lock"
    /\ CanLock(t)
    /\ qm' = t
    /\ at' = [at EXCEPT ![t] = IF t = "gui" THEN "set" ELSE "read"]
    /\ UNCHANGED <<flag, rets, stops, trues>>
    /\ UNCHANGED <<sysVars, spikeVars, miniVars, medVars, cfgVars, rateVars>>
    /\ UNCHANGED <<propVars, basicVars, widgetVars>>

(* stop: self.toStop = True *)
StopSet ==
    /\ at["gui"] = "set"
    /\ flag' = TRUE
    /\ stops' = stops + 1
    /\ at' = [at EXCEPT !["gui"] = "unlock"]
    /\ UNCHANGED <<qm, rets, trues>>
    /\ UNCHANGED <<sysVars, spikeVars, miniVars, medVars, cfgVars, rateVars>>
    /\ UNCHANGED <<propVars, basicVars, widgetVars>>

(* stopRequested: ret = copy.copy(self.toStop) *)
PollRead(t) ==
    /\ t \in Pollers
    /\ at[t] = "read"
    /\ rets' = [rets EXCEPT ![t] = flag]
    /\ at' = [at EXCEPT ![t] = "clear"]
    /\ UNCHANGED <<qm, flag, stops, trues>>
    /\ UNCHANGED <<sysVars, spikeVars, miniVars, medVars, cfgVars, rateVars>>
    /\ UNCHANGED <<propVars, basicVars, widgetVars>>

(* stopRequested: if ret: self.toStop = False *)
PollClear(t) ==
    /\ t \in Pollers
    /\ at[t] = "clear"
    /\ flag' = IF rets[t] THEN FALSE ELSE flag
    /\ trues' = IF rets[t] THEN trues + 1 ELSE trues
    /\ at' = [at EXCEPT ![t] = "unlock"]
    /\ UNCHANGED <<qm, rets, stops>>
    /\ UNCHANGED <<sysVars, spikeVars, miniVars, medVars, cfgVars, rateVars>>
    /\ UNCHANGED <<propVars, basicVars, widgetVars>>

(* self.qm.unlock() and the return *)
QmUnlock(t) ==
    /\ at[t] = "unlock"
    /\ qm' = "free"
    /\ at' = [at EXCEPT ![t] = "idle"]
    /\ UNCHANGED <<flag, rets, stops, trues>>
    /\ UNCHANGED <<sysVars, spikeVars, miniVars, medVars, cfgVars, rateVars>>
    /\ UNCHANGED <<propVars, basicVars, widgetVars>>

StopEnter == \E t \in Threads : Enter(t)
StopLock == \E t \in Threads : QmLock(t)
StopRead == \E t \in Pollers : PollRead(t)
StopClear == \E t \in Pollers : PollClear(t)
StopUnlock == \E t \in Threads : QmUnlock(t)

NextStop ==
    \/ StopEnter
    \/ StopLock
    \/ StopSet
    \/ StopRead
    \/ StopClear
    \/ StopUnlock

StopIdle ==
    /\ qm = "free"
    /\ flag = FALSE
    /\ at = [t \in Threads |-> "idle"]
    /\ rets = [t \in Pollers |-> FALSE]
    /\ stops = MaxStops
    /\ trues = MaxPolls

---------------------------------------------------------------------------
(* Mini.setBasic called with the record held by the parameter manager:
   AnalyzeModuleWindow.updateDisp (window creation, parameter import) and
   AnalyzeModuleWindow.changeBasic (parameter dialog).  ParamMan.get returns
   the stored dict itself and setBasic keeps a reference to the dict it is
   given, so after every call Mini.miniParam and the stored record are one
   object. *)
MaxSets == 4        \* calls of setBasic with the record of the manager

BasicRecords == [riseSlope : {1, 2, 3}, minAmp : {1, 3}, scale : {2, 3}]

(* Mini.loadDefault("basic") *)
DefaultBasic == [riseSlope |-> 1, minAmp |-> 1, scale |-> 2]

(* the dict after setBasic: riseSlope and minAmp multiplied by scale in
   place *)
Scaled(param) ==
    [param EXCEPT !.riseSlope = @ * param.scale, !.minAmp = @ * param.scale]

(* self.module.setBasic(record): miniParam is the record, modified *)
setBasic(record, given) ==
    /\ params' = Scaled(record)
    /\ mParam' = params'
    /\ configured' = given

(* Mini.__init__ has called setBasic(loadDefault("basic")) on a dict of
   its own; the manager holds the record of the project *)
BasicInit ==
    /\ configured \in BasicRecords
    /\ params = configured
    /\ mParam = Scaled(DefaultBasic)
    /\ sets = 0

(* wcpMainWindow.addModule: the window is created and updateDisp() calls
   setBasic with the record of the manager *)
createWindow ==
    /\ sets = 0
    /\ sets' = 1
    /\ setBasic(params, configured)
    /\ UNCHANGED <<sysVars, spikeVars, miniVars, medVars, cfgVars, rateVars>>
    /\ UNCHANGED <<propVars, stopVars, widgetVars>>

(* wcpMainWindow.importParams: ParamMan.load replaces the record when a file
   was chosen, then updateDisp() of the window calls setBasic with the
   record of the manager *)
importBasic ==
    /\ sets > 0
    /\ sets < MaxSets
    /\ sets' = sets + 1
    /\ \E loaded \in BasicRecords \cup {<<>>} :
          IF loaded = <<>>
          THEN setBasic(params, configured)
          ELSE setBasic(loaded, loaded)
    /\ UNCHANGED <<sysVars, spikeVars, miniVars, medVars, cfgVars, rateVars>>
    /\ UNCHANGED <<propVars, stopVars, widgetVars>>

(* AnalyzeModuleWindow.changeBasic: the record read from the dialog is
   stored and handed to setBasic *)
acceptBasic ==
    /\ sets > 0
    /\ sets < MaxSets
    /\ sets' = sets + 1
    /\ \E p \in BasicRecords : setBasic(p, p)
    /\ UNCHANGED <<sysVars, spikeVars, miniVars, medVars, cfgVars, rateVars>>
    /\ UNCHANGED <<propVars, stopVars, widgetVars>>

NextBasic ==
    \/ createWindow
    \/ importBasic
    \/ acceptBasic

BasicIdle ==
    /\ params = DefaultBasic
    /\ mParam = DefaultBasic
    /\ configured = DefaultBasic
    /\ sets = MaxSets

----------------------------------------------------------------------------
(* ParamWidget (paramWidget.py) of one profile with two integer fields and
   a protocol combo box, and the Worker that reads it (analyzeModule.py).
   Every signal of an input widget runs updateParam, which starts with
   self.err = False.  QComboBox.clear() on a filled box and addItem() on an
   empty one change the current text and so emit currentTextChanged;
   QLineEdit.setText() does not emit textEdited. *)
MaxEdits == 4       \* signals handled by the widget
MaxItems == 2       \* protocols of the project

Fields == {"a", "b"}
FieldTexts == {"1", "2", "x", ""}

(* int(val) succeeds *)
Parses(t) == t \in {"1", "2"}

(* int(val) *)
IntOf(t) == IF t = "1" THEN 1 ELSE 2

(* str(val) *)
StrOf(v) == IF v = 1 THEN "1" ELSE "2"

(* the flag after the combo box was rebuilt from n protocols: the signals of
   clear() and of the first addItem() run updateParam, then an empty list
   sets the flag *)
Rebuilt(n) == n = 0

(* ParamWidget.__init__: updateDisp() and updateDisp(param) *)
WidgetInit ==
    /\ wparam \in [Fields -> {1, 2}]
    /\ texts = [f \in Fields |-> StrOf(wparam[f])]
    /\ items \in 0..MaxItems
    /\ err = Rebuilt(items)
    /\ edits = 0
    /\ called = "none"

(* textEdited of the line edit of field f: updateParam(f, "int", t) *)
updateParam(f, t) ==
    /\ edits < MaxEdits
    /\ edits' = edits + 1
    /\ t # texts[f]
    /\ texts' = [texts EXCEPT ![f] = t]
    /\ IF Parses(t)
       THEN /\ wparam' = [wparam EXCEPT ![f] = IntOf(t)]
            /\ err' = FALSE
       ELSE /\ wparam' = wparam
            /\ err' = TRUE
    /\ UNCHANGED <<items, called>>
    /\ UNCHANGED <<sysVars, spikeVars, miniVars, medVars, cfgVars, rateVars>>
    /\ UNCHANGED <<propVars, stopVars, basicVars>>

(* the user picks another protocol in the combo box: currentTextChanged runs
   updateParam(ind, "protocol", x) *)
selectProtocol ==
    /\ edits < MaxEdits
    /\ edits' = edits + 1
    /\ items > 1
    /\ err' = FALSE
    /\ UNCHANGED <<texts, wparam, items, called>>
    /\ UNCHANGED <<sysVars, spikeVars, miniVars, medVars, cfgVars, rateVars>>
    /\ UNCHANGED <<propVars, stopVars, basicVars>>

(* wcpMainWindow.updateModule -> updateDisp(False) -> ParamWidget.updateDisp():
   the protocols of the project changed and the combo box is rebuilt *)
updateProtocols ==
    /\ edits < MaxEdits
    /\ edits' = edits + 1
    /\ \E n \in 0..MaxItems :
          /\ n # items
          /\ items' = n
          /\ err' = Rebuilt(n)
    /\ UNCHANGED <<texts, wparam, called>>
    /\ UNCHANGED <<sysVars, spikeVars, miniVars, medVars, cfgVars, rateVars>>
    /\ UNCHANGED <<propVars, stopVars, basicVars>>

(* ParamWidget.updateDisp(param) after an import: every line edit shows the
   text of its value and the combo box is rebuilt *)
updateDisp ==
    /\ edits < MaxEdits
    /\ edits' = edits + 1
    /\ \E p \in [Fields -> {1, 2}] :
          /\ wparam' = p
          /\ texts' = [f \in Fields |-> StrOf(p[f])]
    /\ err' = Rebuilt(items)
    /\ UNCHANGED <<items, called>>
    /\ UNCHANGED <<sysVars, spikeVars, miniVars, medVars, cfgVars, rateVars>>
    /\ UNCHANGED <<propVars, stopVars, basicVars>>

(* ParamWidget.getParam *)
getParam == IF ~err THEN wparam ELSE <<>>

(* Worker.run: changeParams(idx) returns 0 when getParam() is None, else
   the analysis function is called *)
run ==
    /\ edits < MaxEdits
    /\ edits' = edits + 1
    /\ called' = IF getParam = <<>> THEN "no" ELSE "yes"
    /\ UNCHANGED <<texts, wparam, items, err>>
    /\ UNCHANGED <<sysVars, spikeVars, miniVars, medVars, cfgVars, rateVars>>
    /\ UNCHANGED <<propVars, stopVars, basicVars>>

NextWidget ==
    \/ \E f \in Fields, t \in FieldTexts : updateParam(f, t)
    \/ selectProtocol
    \/ updateProtocols
    \/ updateDisp
    \/ run

WidgetIdle ==
    /\ texts = [f \in Fields |-> "1"]
    /\ wparam = [f \in Fields |-> 1]
    /\ items = 1
    /\ err = FALSE
    /\ edits = MaxEdits
    /\ called = "none"

MoreIdle == PropIdle /\ StopIdle /\ BasicIdle /\ WidgetIdle

AuxIdle == MedIdle /\ CfgIdle /\ RateIdle /\ MoreIdle

---------------------------------------------------------------------------
(* Specifications *)

(* the state of the parts a specification does not exercise *)
SysIdle ==
    /\ SysInit
    /\ fn = "AP"

SpikeIdle ==
    /\ trace = <<>>
    /\ sr = 1
    /\ stim = <<0, 0>>
    /\ sign = 1
    /\ slope_th = 0
    /\ peak_th = 0
    /\ width_th = 0
    /\ pstart = <<>>
    /\ reverse = <<>>
    /\ i = 0
    /\ j = 0
    /\ starts = <<>>
    /\ AHPParam = [mAHP_begin |-> 0, mAHP_end |-> 0]
    /\ apProps = <<>>
    /\ trialProps = NoProps
    /\ spc = "done"

MiniIdle ==
    /\ miniParam = [riseSlope |-> 0, riseTime |-> 0, stackWin |-> 0,
                    minTau |-> 0, residual |-> 0]
    /\ win = <<0, 0>>
    /\ dfx = <<>>
    /\ peaks = <<>>
    /\ troughs = <<>>
    /\ rises = <<>>
    /\ ptrInds = <<>>
    /\ lastRise = 0
    /\ last2Rise = 0
    /\ peakStack = <<>>
    /\ mi = 0
    /\ popt = NoFit
    /\ events = <<>>
    /\ log = <<>>
    /\ mpc = "done"

Init == SysInit /\ SpikeIdle /\ MiniIdle /\ AuxIdle
Spec == Init /\ [][Next]_vars

(* The worker thread runs whenever it can: a QThread that was started is
   scheduled, a prompt is answered, and the jobDone signal that was emitted
   is delivered to unlock by the event loop of the window. *)
WorkerStep ==
    \/ APTrial
    \/ APAnswer
    \/ MiniTrial
    \/ MiniAnswer
    \/ StTrial
    \/ StFit
    \/ StAnswer1
    \/ StAnswer2
    \/ Poll
    \/ Finish

SpecLive == Init /\ [][Next]_vars /\ WF_vars(WorkerStep) /\ WF_vars(JobDone)

InitSpike == SysIdle /\ SpikeInit /\ MiniIdle /\ AuxIdle
SpecSpike == InitSpike /\ [][NextSpike]_vars

InitProps == SysIdle /\ PropsInit /\ MiniIdle /\ AuxIdle
SpecProps == InitProps /\ [][NextSpike]_vars

InitMini == SysIdle /\ SpikeIdle /\ MiniInit /\ AuxIdle
SpecMini == InitMini /\ [][NextMini]_vars

InitMed == SysIdle /\ SpikeIdle /\ MiniIdle /\ MedInit /\ CfgIdle /\ RateIdle /\ MoreIdle
SpecMed == InitMed /\ [][NextMed]_vars

InitCfg == SysIdle /\ SpikeIdle /\ MiniIdle /\ MedIdle /\ CfgInit /\ RateIdle /\ MoreIdle
SpecCfg == InitCfg /\ [][NextCfg]_vars

InitRate == SysIdle /\ SpikeIdle /\ MiniIdle /\ MedIdle /\ CfgIdle /\ RateInit /\ MoreIdle
SpecRate == InitRate /\ [][NextRate]_vars

BaseIdle == SysIdle /\ SpikeIdle /\ MiniIdle /\ MedIdle /\ CfgIdle /\ RateIdle

InitProp == BaseIdle /\ PropInit /\ StopIdle /\ BasicIdle /\ WidgetIdle
SpecProp == InitProp /\ [][NextProp]_vars

InitStop == BaseIdle /\ PropIdle /\ StopInit /\ BasicIdle /\ WidgetIdle
SpecStop == InitStop /\ [][NextStop]_vars

InitBasic == BaseIdle /\ PropIdle /\ StopIdle /\ BasicInit /\ WidgetIdle
SpecBasic == InitBasic /\ [][NextBasic]_vars

InitWidget == BaseIdle /\ PropIdle /\ StopIdle /\ BasicIdle /\ WidgetInit
SpecWidget == InitWidget /\ [][NextWidget]_vars



---------------------------------------------------------------------------
(* Properties of the batch loops (Spec) *)

(* C1: when the stop flag ends a batch run after k trials, the run returns
   the non-error status 0 and the result table of the protocol holds the
   rows of exactly those k trials. *)
C1_StopKeepsProcessed ==
    pc = "stopped" =>
        /\ ret = "0"
        /\ Len(acc) = k
        /\ store[prot] = acc

(* C6: no RuntimeError of a fit that does not converge leaves stAnalysis
   when it runs without inspection and without comp; the trial yields the
   steady-state row instead. *)
C6_HeadlessFitFailureFallsBack ==
    (fn = "St" /\ verbose <= 1 /\ ~comp /\ pc = "raised")
        => exc # "RuntimeError"

(* C7: a membrane-test batch run with verbose <= 1 emits no plot request
   and never waits for input. *)
C7_HeadlessNeverAsks ==
    (fn \in {"St", "Sub"} /\ verbose <= 1 /\ pc # "idle")
        => (~plots /\ ~prompts /\ pc \notin {"ask1", "ask2"})

(* C8: when the user rejects a trace in batchSpikeAnalysis, the run returns
   the non-error status 0 and the result table of the protocol holds the
   rows of the trials processed before the rejected one. *)
C8_RejectKeepsProcessed ==
    (fn = "AP" /\ pc = "aborted") =>
        /\ ret = "0"
        /\ Len(acc) = k
        /\ \A n \in 1..k : n <= Len(store[prot]) /\ store[prot][n] = acc[n]

(* C9: while the window is busy the active detection parameters do not
   change. *)
C9_ParamsFrozenWhileBusy == [][busy => active' = active]_vars

(* C10: a trace that fails to load ends the run at that trial: the failure
   names the (cell, trial) being loaded, no later trial is processed, and
   the run persists nothing (the table is written only by a run that
   reaches its end). *)
C10_LoadFailureAbortsRun ==
    [][/\ (pc # "raised" /\ pc' = "raised" /\ exc' = "IOError")
            => (reported' = TrialAt(k + 1) /\ k' = k /\ store' = store)
       /\ (pc = "raised")
            => (pc' = "raised" /\ k' = k /\ acc' = acc /\ store' = store)
       /\ (store' # store) => (pc = "loop" /\ pc' = "finished")]_vars

(* C10 witness: the load of a later trial failed after an earlier trial
   had been processed *)
C10_Witness ==
    pc = "raised" /\ exc = "IOError" /\ k >= 1 /\ reported = TrialAt(k + 1)

---------------------------------------------------------------------------
(* Properties of the onset scan (SpecSpike) *)

Range(a) == {a[n] : n \in DOMAIN a}

(* no sample-to-sample slope exceeds the threshold *)
NoSlopeExceeds ==
    \A n \in 1..(Len(trace) - 1) : trace_diff(trace, sr)[n] <= slope_th

(* the first slope-negative index greater than r, -1 when there is none *)
NextPeak(r) ==
    LET later == {p \in Range(reverse) : p > r}
    IN  IF later = {} THEN -1
        ELSE CHOOSE p \in later : \A q \in later : p <= q

InWindow(r) == sr * stim[1] <= r /\ r < sr * (stim[1] + stim[2])

(* r lies between an accepted onset and that onset's peak point *)
Skipped(r) == \E s \in Range(starts) : s < r /\ r < NextPeak(s)

(* the while loop has ended: spikeAnalysis returned or raised after it *)
ScanEnded == spc # "scan"

(* C2: the onsets collected by spikeAnalysis are strictly increasing. *)
C2_StartsIncreasing ==
    \A a, b \in 1..Len(starts) : a < b => starts[a] < starts[b]

C2_Witness == ScanEnded /\ Len(starts) >= 2

(* C3: a trace in which no slope exceeds spike_slope_threshold yields no
   spike. *)
C3_NoSlopeNoSpike == NoSlopeExceeds => starts = <<>>

(* C3 witness: a scan that ended on a trace whose steepest rise equals the
   threshold, inside the stimulation window and followed by a fall *)
C3_Witness ==
    /\ ScanEnded
    /\ NoSlopeExceeds
    /\ \E n \in 1..(Len(trace) - 1) :
          /\ trace_diff(trace, sr)[n] = slope_th
          /\ slope_th > 0
          /\ InWindow(n - 1)
          /\ NextPeak(n - 1) # -1

(* C4: a rise candidate in the stimulation window that no earlier onset
   skipped is an onset exactly when its peak point p exists and
   trace[p] - trace[r] > spike_peak_threshold and
   p - r < half_width_threshold * sr; the candidates an onset skipped are
   no onsets; no two onsets share a peak point. *)
C4_OnsetIffPeakAndWidth ==
    ScanEnded =>
        /\ \A r \in Range(pstart) :
              (InWindow(r) /\ ~Skipped(r)) =>
                  (r \in Range(starts) <=>
                      /\ NextPeak(r) # -1
                      /\ At(trace, NextPeak(r)) - At(trace, r) > peak_th
                      /\ NextPeak(r) - r < width_th * sr)
        /\ \A r \in Range(pstart) : Skipped(r) => r \notin Range(starts)
        /\ \A s1, s2 \in Range(starts) : NextPeak(s1) = NextPeak(s2) => s1 = s2

(* C4 witness: an onset was accepted, a later candidate of the same burst
   was skipped, and a candidate with a peak point was turned down *)
C4_Witness ==
    /\ ScanEnded
    /\ starts # <<>>
    /\ \E r \in Range(pstart) : Skipped(r)
    /\ \E r \in Range(pstart) :
          InWindow(r) /\ ~Skipped(r) /\ NextPeak(r) # -1 /\ r \notin Range(starts)


---------------------------------------------------------------------------
(* Properties of the candidate scan (SpecMini) *)

(* C5: an event is recorded only by a pass whose fit returned a decay time
   constant above minTau and a residual below the residual threshold, and
   the event carries that time constant; a pass whose fit fails either test
   records nothing. *)
C5_EventsPassTauAndResidual ==
    [][/\ (events' # events) =>
             /\ popt'.st = "ok"
             /\ popt'.tau_decay > miniParam.minTau
             /\ popt'.res < miniParam.residual
             /\ Len(events') = Len(events) + 1
             /\ events'[Len(events')].decay = popt'.tau_decay
       /\ (popt'.st = "ok" /\ mi' # mi /\
             (popt'.tau_decay <= miniParam.minTau \/ popt'.res >= miniParam.residual))
             => events' = events]_vars

(* C5 witness: the scan recorded one event and turned down a fit that
   returned *)
C5_Witness ==
    /\ events # <<>>
    /\ popt.st = "ok"
    /\ ~(popt.tau_decay > miniParam.minTau /\ popt.res < miniParam.residual)


---------------------------------------------------------------------------
(* Properties of thmedfilt (SpecMed) *)

(* C11: whenever thmedfilt returns, its output has the length of the input,
   sample n is the median-filtered value where that value differs from the
   input by more than thresh, and is the input sample otherwise, a
   difference equal to thresh included. *)
C11_FilteredOnlyAboveThreshold ==
    tpc \in {"again", "done"} =>
        /\ Len(z) = Len(x)
        /\ \A n \in 1..Len(x) :
              LET med == Median(Window(x, n, wsize))
                  dev == IF med < x[n] THEN x[n] - med ELSE med - x[n]
              IN  /\ dev > thresh => z[n] = med
                  /\ dev <= thresh => z[n] = x[n]

(* C11 witness: a returned output with one sample replaced and one sample
   kept whose difference to the median equals thresh > 0 *)
C11_Witness ==
    /\ tpc = "done"
    /\ thresh > 0
    /\ \E n \in 1..Len(x) : z[n] # x[n]
    /\ \E n \in 1..Len(x) :
          /\ Abs(Median(Window(x, n, wsize)) - x[n]) = thresh
          /\ z[n] = x[n]

(* C12: when every sample of x is within thresh of its median-filtered
   value, thmedfilt returns x, and filtering that output again returns it
   again. *)
C12_IdentityBelowThreshold ==
    (/\ tpc = "done"
     /\ \A n \in 1..Len(x) : Abs(Median(Window(x, n, wsize)) - x[n]) <= thresh)
        => (z = x /\ zz = z)

(* C12 witness: such an input whose median-filtered value differs from it *)
C12_Witness ==
    /\ tpc = "done"
    /\ \A n \in 1..Len(x) : Abs(Median(Window(x, n, wsize)) - x[n]) <= thresh
    /\ \E n \in 1..Len(x) : Median(Window(x, n, wsize)) # x[n]
    /\ zz = x

---------------------------------------------------------------------------
(* Properties of the end of spikeAnalysis (SpecSpike) *)

(* C13: spikeAnalysis on a stimulation of zero duration ends with
   InvalidStimulusError; the spike count is not divided by the duration. *)
C13_ZeroDurationRejected ==
    (stim[2] = 0 /\ spc # "scan") => spc = "InvalidStimulusError"

---------------------------------------------------------------------------
(* Properties of the filter configuration (SpecCfg) *)

(* a requested bandpass whose two frequencies are numbers with
   freq_high <= freq_low *)
Inverted(f) == f.name \in Bandpass /\ f.p1.ok /\ f.p2.ok /\ f.p2.v <= f.p1.v

(* C14 as stated: setting a bandpass with freq_high <= freq_low fails, so
   that no filter of the request is installed for loadWave to apply. *)
C14_InvertedBandFails ==
    (cpc # "init" /\ \E n \in 1..Len(fs) : Inverted(fs[n])) => filters = <<>>

(* C14 amended: setFilters returns 0 for a request with an inverted band and
   installs the default band of the filter in its place; no installed
   bandpass and no bandpass call of smooth made by loadWave has
   freq_high <= freq_low. *)
C14_InvertedBandReplaced ==
    cpc # "init" =>
        /\ \A n \in 1..Len(fs) :
              Inverted(fs[n]) =>
                  /\ fret = 0
                  /\ filters[n].name = fs[n].name
                  /\ filters[n].freq_low = 500
                  /\ filters[n].freq_high = 2000
        /\ \A n \in 1..Len(filters) :
              filters[n].name \in Bandpass => filters[n].freq_low < filters[n].freq_high
        /\ \A n \in 1..Len(calls) :
              Len(calls[n].band) = 2 /\ calls[n].foo = "smooth"
                  => calls[n].band[1] < calls[n].band[2]

(* C14 witness: loadWave has filtered with the default band put in place of
   an inverted one *)
C14_Witness ==
    /\ cpc = "loaded"
    /\ \E n \in 1..Len(fs) :
          /\ Inverted(fs[n])
          /\ calls[n] = [foo |-> "smooth", band |-> <<500, 2000>>]

---------------------------------------------------------------------------
(* Properties of the persisted tables (Spec) *)

(* C15: the step that completes a batch run of protocol prot leaves in the
   table of prot exactly the rows of this run, and leaves the table of every
   other protocol as it was. *)
C15_RunReplacesTable ==
    [][(pc = "loop" /\ pc' = "finished") =>
          /\ store'[prot] = acc
          /\ \A n \in 1..Len(store'[prot]) : store'[prot][n].run = runs
          /\ \A p \in Protocols \ {prot} : store'[p] = store[p]]_vars

---------------------------------------------------------------------------
(* More properties of the candidate scan (SpecMini) *)

(* the pass just made fitted a candidate and did not record it *)
FitNotRecorded ==
    /\ mi' # mi
    /\ popt'.st # "none"
    /\ ~(/\ popt'.st = "ok"
         /\ popt'.tau_decay > miniParam.minTau
         /\ popt'.res < miniParam.residual)

(* C16: a candidate whose fit is rejected, does not converge or
   cannot be initialised is logged and skipped, and the scan goes on. *)
C16_FailedFitLoggedAndSkipped ==
    [][FitNotRecorded =>
          /\ events' = events
          /\ Len(log') > Len(log)
          /\ mpc' = "scan"]_vars

(* C17: the rise times of the events recorded for one trace are strictly
   increasing. *)
C17_RisesIncreasing ==
    \A a, b \in 1..Len(events) : a < b => events[a].rise < events[b].rise

---------------------------------------------------------------------------
(* Properties of the spikes (SpecProps) *)

(* C22: for every spike but the last, the mAHP is recorded exactly when
   onset + mAHP_begin lies before the next onset, and it is the onset voltage
   minus the minimum of the trace from onset + mAHP_begin up to the earlier
   of onset + mAHP_end and the next onset. *)
C22_mAHPWindowAfterOnset ==
    spc = "done" =>
        \A s \in 1..(Len(apProps) - 1) :
            LET st == apProps[s].start
                nx == apProps[s + 1].start
                lo == st + AHPParam.mAHP_begin
                hi == Min2(st + AHPParam.mAHP_end, nx)
            IN  IF lo < nx
                THEN /\ apProps[s].mAHP # <<>>
                     /\ \E n \in lo..(hi - 1) :
                           /\ apProps[s].mAHP[1] = At(trace, st) - At(trace, n)
                           /\ \A m \in lo..(hi - 1) : At(trace, n) <= At(trace, m)
                ELSE apProps[s].mAHP = <<>>

(* C29: with a slope threshold that is not negative, every recorded spike
   has an amplitude above spike_peak_threshold. *)
C29_AmplitudeAbovePeakThreshold ==
    slope_th >= 0 => \A s \in 1..Len(apProps) : apProps[s].amp > peak_th

(* C29 witness: two spikes recorded under a half width threshold that
   admits peak points beyond the 10 ms window of the last spike *)
C29_Witness ==
    /\ spc = "done"
    /\ slope_th >= 0
    /\ Len(apProps) = 2
    /\ width_th * sr > LastWin(sr)

---------------------------------------------------------------------------
(* Properties of the retry loop of stAnalysis / subAnalysis (Spec) *)

(* C20: once the user has been prompted for a trace, the retry loop ends
   only on the answer k or on an answer other than m: an m reply, whatever
   the threshold typed, is followed by another pass of the loop, and a pass
   made with a threshold in force stays in the loop or ends at the prompt. *)
C20_RetryLoopEndsOnAnswerOnly ==
    [][/\ pc = "ask2" => pc' \in {"ask2", "fit"}
       /\ (pc = "fit" /\ mf = "set") => pc' \in {"fit", "ask1"}]_vars

---------------------------------------------------------------------------
(* Properties of the event rate (SpecRate) *)

(* C18: the rate aveProps writes for a cell is the sum of the event counts
   of its trials over the sum of the durations of the segments miniAnalysis
   analysed for them, whatever the window. *)
C18_RateOverAnalysedDuration ==
    rpc = "averaged" =>
        sumTrialProps.rate = <<Sum(mTrialProps, "num"), SumSeq(analysed)>>

---------------------------------------------------------------------------
(* Properties of the busy flag and the stop flag (SpecLive, Spec) *)

(* C24: every run that sets the busy flag of its window clears it again,
   whatever the outcome of the worker's function. *)
C24_BusyEventuallyCleared == busy ~> ~busy

(* C25: whenever an analysis run starts, the stop flag of the module is
   false. *)
C25_NoStopPendingAtStart == [][(~busy /\ busy') => ~toStop']_vars

---------------------------------------------------------------------------
(* Properties of the resistances (SpecProp) *)

(* C21: in voltage clamp with the fit accepted, the row holds
   Rs = amp / (x0 - baseline), Rin = amp / (xs - baseline) - Rs and
   Cm = tau * (Rin + Rs) / (Rin * Rs), baseline being the mean of the trace
   over the baseline window in the units of x0 and xs the steady state value
   of the fit. *)
C21_VoltageClampResistances ==
    (dpc = "returned" /\ stArgs.clamp = "v" /\ stArgs.trapped) =>
        LET baseline == F(stArgs.meanBase)
            Rs == FDiv(F(stArgs.amp), FSub(F(stArgs.x0), baseline))
            Rin == FSub(FDiv(F(stArgs.amp), FSub(F(stArgs.xs), baseline)), Rs)
        IN  /\ FEq(stProps.Rs, Rs)
            /\ FEq(stProps.Rin, Rin)
            /\ FEq(stProps.Cm,
                   FDiv(FMul(F(stArgs.tau), FAdd(Rin, Rs)), FMul(Rin, Rs)))

---------------------------------------------------------------------------
(* Properties of the stop flag (SpecStop) *)

(* C23: stopRequested reads and clears the flag in one piece with respect
   to stop(): no more calls of stopRequested have found the flag set than
   calls of stop() have set it, and when a call that found it set leaves
   its critical section the flag is false. *)
C23_StopReadAndClearAtomic ==
    /\ trues <= stops
    /\ \A t \in Pollers : (at[t] = "unlock" /\ rets[t]) => ~flag

(* C23 witness: both requests have been set and one of them has been
   consumed while the window's thread and another worker were inside their
   calls *)
C23_Witness ==
    /\ stops = 2
    /\ \E t \in Pollers :
          /\ at[t] = "unlock" /\ rets[t]
          /\ \E u \in Pollers \ {t} : at[u] = "lock"

---------------------------------------------------------------------------
(* Properties of Mini.setBasic (SpecBasic) *)

(* C26: after any sequence of setBasic calls made with the record of the
   parameter manager, the active riseSlope and minAmp are the configured
   values multiplied by scale once, and the stored record holds the
   configured values. *)
C26_SetBasicIdempotent ==
    sets > 0 =>
        /\ mParam.riseSlope = configured.riseSlope * configured.scale
        /\ mParam.minAmp = configured.minAmp * configured.scale
        /\ params.riseSlope = configured.riseSlope
        /\ params.minAmp = configured.minAmp


(* C27: whenever a field of the ParamWidget holds text that failed to parse,
   or the protocol list is empty, getParam returns None, whatever valid
   edits of other fields came later. *)
AnyUnparsed == \E f \in Fields : ~Parses(texts[f])

C27_ErrorKeptWhileAnyFieldInvalid ==
    (AnyUnparsed \/ items = 0) => getParam = <<>>


(* C28: a batch run over a protocol to which no trial is assigned ends
   normally: when the loop of any of the four batch functions is left with
   no trial enumerated, the function has returned and nothing was raised. *)
C28_EmptyProtocolEndsNormally ==
    [][(pc = "loop" /\ assigned[prot] = 0 /\ pc' # "loop")
          => pc' = "finished"]_vars


(* C30: the last entry of the merged candidate list, the end index, is
   greater than or equal to every peak, trough and rise index before it, for
   every analysis window, the whole-trace window [0, 0] included. *)
C30_SentinelNotBelowCandidates ==
    \A n \in 1..(Len(ptrInds) - 1) : ptrInds[n] <= ptrInds[Len(ptrInds)]

=============================================================================
